---- MODULE Spec2Model ----
(***************************************************************************)
(* docker-machine-driver-vcd: the Driver of driver/vcd.go (latest          *)
(* revision, the one that goes with driver/helpers.go) against a vCloud    *)
(* Director control plane.  The control plane is the environment: it can   *)
(* go down and come back, and the composed vApp can change status, get     *)
(* other network adapters or be deleted out of band.                       *)
(***************************************************************************)
EXTENDS FiniteSets, Integers, Sequences, TLC

\* ------------------------------------------------------------------ bounds
MaxAdapters == 2     \* longest NetworkConnection list the VM reports
MaxChildren == 2     \* most child VMs a template composes into

\* ------------------------------------------------------- program constants
defaultCatalog == "Public"
defaultTemplate == "Ubuntu_Server_20.04"
defaultDockerPort == 2376
defaultStorageProfile == ""
defaultDeleteWhenFailed == TRUE

\* ------------------------------------------------------------- environment
\* locator of the vApp that ComposeVApp creates under d.MachineName
VAppRef == "https://vcd/api/vApp/vapp-1"

\* locator of the i-th child VM of that vApp
VMRef(i) == "https://vcd/api/vApp/vm-" \o ToString(i)

\* the status strings a vApp or VM reports (types.VAppStatuses), the four
\* that GetState names and two that it does not
VAppStatuses ==
  {"POWERED_ON", "POWERED_OFF", "MIXED", "UNRESOLVED", "RESOLVED", "SUSPENDED"}

\* what the datacenter can hold in Vdc.VdcStorageProfiles.VdcStorageProfile
ProfileLists == {<<>>, <<"gold">>, <<"silver">>, <<"silver", "gold">>}

\* the values of the string flags: left empty, or given
FlagStrings == {"", "v"}

\* vcd-url: empty, a request URI, or text url.ParseRequestURI rejects
FlagURLs == {"", "https://vcd", "vcd"}

\* the adapter at position i has its own external and internal address, or not
Adapter(i) ==
  { [ExternalIPAddress |-> e, IPAddress |-> n] :
      e \in {"", "ext" \o ToString(i)}, n \in {"", "int" \o ToString(i)} }

\* every NetworkConnection list of at most MaxAdapters adapters
AdapterLists ==
  UNION { { s \in [1..k -> UNION {Adapter(i) : i \in 1..k}] :
              \A i \in 1..k : s[i] \in Adapter(i) } : k \in 0..MaxAdapters }

\* vm.VM.NetworkConnectionSection: nil, or a section with its adapters
NetSections ==
  {[isNil |-> TRUE, NetworkConnection |-> <<>>]} \cup
  { [isNil |-> FALSE, NetworkConnection |-> s] : s \in AdapterLists }

VARIABLES
  d,            \* the Driver struct
  phase,        \* "new" | "configured" | "rejected": outcome of SetConfigFromFlags
  createPc,     \* position of the goroutine that runs Create
  createRet,    \* what Create returned: "running" until it returns, "nil", or the error
  err,          \* Create's local err: TRUE when non-nil
  storageProfile, \* Create's local storageProfile ("" until resolved)
  reqs,         \* the requests Create has sent that change the control plane, in order
  failedSteps,  \* the steps of Create whose call reported a failure
  workerPc,     \* position of the poll goroutine: "none" | "status" | "tasks" | "done"
  status,       \* the poll goroutine's local status ("" before the first read and on a failed read)
  cWait,        \* the one-slot channel
  vapp,         \* Create's vapp object as the poll goroutine's last Refresh left it
  last,         \* the last operation or remote event and what the operation returned
  sessionOpened,\* newClient has been called at least once
  alive,        \* the control plane answers
  vdcProfiles,  \* the datacenter's storage profiles
  nChildren,    \* number of child VMs the template composes into
  vappExists,   \* the vApp named d.MachineName exists remotely
  vappStatus,   \* its status
  netSection    \* the NetworkConnectionSection of its first child VM

vars == <<d, phase, createPc, createRet, err, storageProfile, reqs, failedSteps,
          workerPc, status, cWait, vapp, last, sessionOpened, alive,
          vdcProfiles,
          nChildren, vappExists, vappStatus, netSection>>

driverVars == <<d, phase>>
createVars == <<createPc, createRet, err, storageProfile, reqs, failedSteps>>
workerVars == <<workerPc, status, cWait, vapp>>
remoteVars == <<alive, vdcProfiles, nChildren, vappExists, vappStatus, netSection>>

\* ------------------------------------------------------------------- state
\* NewDriver: the defaults of a fresh Driver; no locator, no URL
NewDriver ==
  [ VcdURL |-> "", VcdOrg |-> "", VcdVdc |-> "", VcdUser |-> "",
    VcdPassword |-> "", VcdOrgVDCNetwork |-> "",
    Catalog |-> defaultCatalog, Template |-> defaultTemplate,
    DockerPort |-> defaultDockerPort,
    VAppHREF |-> "", VMHREF |-> "",
    StorageProfile |-> defaultStorageProfile,
    DeleteWhenFailed |-> defaultDeleteWhenFailed ]

\* the vapp object before the poll goroutine has refreshed it: refresh is
\* the outcome of its last vapp.Refresh() ("none" before the first, "ok",
\* "error"), tasksNil is vapp.VApp.Tasks == nil as the goroutine read it
NotRefreshed == [refresh |-> "none", tasksNil |-> FALSE]

\* a result of an operation that resolved nothing and submitted no task:
\* retry marks a GetState that follows a failed GetState, tasks are the tasks
\* the operation submitted, calls the lookup calls that decided its course
NoTrace == [retry |-> FALSE, tasks |-> <<>>, calls |-> <<>>]

Init ==
  /\ d = NewDriver
  /\ phase = "new"
  /\ createPc = "idle"
  /\ createRet = "running"
  /\ err = FALSE
  /\ storageProfile = ""
  /\ reqs = <<>>
  /\ failedSteps = {}
  /\ workerPc = "none"
  /\ status = ""
  /\ cWait = <<>>
  /\ vapp = NotRefreshed
  /\ last = [op |-> "none", val |-> "", err |-> "", next |-> FALSE] @@ NoTrace
  /\ sessionOpened = FALSE
  /\ alive \in BOOLEAN
  /\ vdcProfiles \in ProfileLists
  /\ nChildren \in 0..MaxChildren
  /\ vappExists = FALSE
  /\ vappStatus = "UNRESOLVED"
  /\ netSection = [isNil |-> TRUE, NetworkConnection |-> <<>>]

\* ------------------------------------------------------ SetConfigFromFlags
\* the options docker-machine hands over: every string flag empty or given,
\* the bool flag present or not
Flags ==
  [ url : FlagURLs, org : FlagStrings, vdc : FlagStrings, user : FlagStrings,
    password : FlagStrings, orgvdcnetwork : FlagStrings,
    catalog : FlagStrings, template : FlagStrings,
    storageprofile : {"", "gold", "silver"},
    deletewhenfailed : BOOLEAN ]

\* flags.Bool for vcd-delete-when-failed, a BoolFlag declared with no value:
\* true when the option is supplied, false when it is not
FlagBool(supplied) == supplied

\* the boolean options a run of SetConfigFromFlags was given
Supplied(flags) ==
  IF flags.deletewhenfailed THEN "vcd-delete-when-failed" ELSE ""

\* the check without the template
MissingParams_noTemplate(vcdURL, dd) ==
  \/ vcdURL = ""
  \/ dd.VcdOrg = ""
  \/ dd.VcdVdc = ""
  \/ dd.VcdUser = ""
  \/ dd.VcdPassword = ""
  \/ dd.VcdOrgVDCNetwork = ""
  \/ dd.Catalog = ""

\* the check for required Params
MissingParams(vcdURL, dd) ==
  \/ vcdURL = ""
  \/ dd.VcdOrg = ""
  \/ dd.VcdVdc = ""
  \/ dd.VcdUser = ""
  \/ dd.VcdPassword = ""
  \/ dd.VcdOrgVDCNetwork = ""
  \/ dd.Catalog = ""
  \/ dd.Template = ""

\* url.ParseRequestURI: an absolute URI or an absolute path
ParseRequestURIFails(vcdURL) == vcdURL \notin {"https://vcd"}

SetConfigFromFlags ==
  /\ phase = "new"
  /\ \E flags \in Flags :
       LET d1 == [d EXCEPT !.VcdOrg = flags.org, !.VcdVdc = flags.vdc,
                           !.VcdUser = flags.user,
                           !.VcdPassword = flags.password,
                           !.VcdOrgVDCNetwork = flags.orgvdcnetwork,
                           !.Catalog = flags.catalog,
                           !.Template = flags.template]
       IN  IF MissingParams(flags.url, d1)
           THEN /\ d' = d1
                /\ phase' = "rejected"
                /\ last' = [op |-> "SetConfigFromFlags", val |-> "",
                            err |-> "please specify the mandatory parameters",
                            next |-> FALSE] @@ NoTrace
           ELSE IF ParseRequestURIFails(flags.url)
           THEN /\ d' = d1
                /\ phase' = "rejected"
                /\ last' = [op |-> "SetConfigFromFlags", val |-> "",
                            err |-> "unable to pass url", next |-> FALSE] @@ NoTrace
           ELSE /\ d' = [d1 EXCEPT !.VcdURL = flags.url,
                                   !.DockerPort = defaultDockerPort,
                                   !.StorageProfile = flags.storageprofile,
                                   !.DeleteWhenFailed =
                                      FlagBool(flags.deletewhenfailed)]
                /\ phase' = "configured"
                /\ last' = [op |-> "SetConfigFromFlags",
                            val |-> Supplied(flags),
                            err |-> "", next |-> FALSE] @@ NoTrace
  /\ UNCHANGED <<createVars, workerVars, sessionOpened, remoteVars>>

\* ------------------------------------------------------------------ Create
\* a return of Create: the goroutine is finished and the caller has the result
CreateReturn(e) ==
  /\ createPc' = "done"
  /\ createRet' = e
  /\ last' = [op |-> "Create", val |-> "", err |-> e, next |-> FALSE] @@ NoTrace

\* a request of Create that changes the control plane
Request(name, arg) == [req |-> name, arg |-> arg]

\* the lookups by exact name, in the order Create makes them
LookupSteps ==
  <<"GetOrgByName", "GetVDCByName", "GetOrgVdcNetworkByName",
    "GetCatalogByName", "GetCatalogItemByName", "GetVAppTemplate">>

\* the elements of a list
Range(s) == {s[i] : i \in 1..Len(s)}

\* newClient: authenticate a fresh session
Create_newClient ==
  /\ phase = "configured"
  /\ createPc = "idle"
  /\ sessionOpened' = TRUE
  /\ \E ok \in BOOLEAN :
       /\ ok => alive
       /\ err' = ~ok
       /\ IF ok
          THEN /\ createPc' = LookupSteps[1]
               /\ UNCHANGED <<createRet, failedSteps, last>>
          ELSE /\ failedSteps' = failedSteps \cup {"newClient"}
               /\ CreateReturn("unable to authenticate to Org")
  /\ UNCHANGED <<driverVars, storageProfile, reqs, workerVars, remoteVars>>

\* org, VDC, network, catalog, catalog item, template
Create_lookup ==
  /\ \E i \in 1..Len(LookupSteps) :
       /\ createPc = LookupSteps[i]
       /\ \E ok \in BOOLEAN :
            /\ ok => alive
            /\ err' = ~ok
            /\ IF ok
               THEN /\ createPc' = IF i < Len(LookupSteps)
                                   THEN LookupSteps[i + 1]
                                   ELSE "FindStorageProfileReference"
                    /\ UNCHANGED <<createRet, failedSteps, last>>
               ELSE /\ failedSteps' = failedSteps \cup {LookupSteps[i]}
                    /\ CreateReturn(LookupSteps[i] \o ": not found")
  /\ UNCHANGED <<driverVars, storageProfile, reqs, workerVars, sessionOpened,
                 remoteVars>>

\* the resolution that takes the first profile when the name is not found
ResolveStorageProfile_fallback(name, profiles, found) ==
  IF name # "" /\ found
  THEN [err |-> "", ref |-> name]
  ELSE IF Len(profiles) < 1
  THEN [err |-> "No storage profile available", ref |-> ""]
  ELSE [err |-> "", ref |-> profiles[1]]

\* the storage profile: the configured name, else the datacenter's first
\* one; found is the outcome of vdc.FindStorageProfileReference
ResolveStorageProfile(name, profiles, found) ==
  IF name # ""
  THEN IF found
       THEN [err |-> "", ref |-> name]
       ELSE [err |-> "can't find any VDC Storage_profiles", ref |-> ""]
  ELSE IF Len(profiles) < 1
  THEN [err |-> "No storage profile available", ref |-> ""]
  ELSE [err |-> "", ref |-> profiles[1]]

Create_storageProfile ==
  /\ createPc = "FindStorageProfileReference"
  /\ \E found \in BOOLEAN :
       /\ found => (alive /\ d.StorageProfile \in Range(vdcProfiles))
       /\ LET r == ResolveStorageProfile(d.StorageProfile, vdcProfiles, found)
          IN  /\ err' = IF d.StorageProfile # "" THEN r.err # "" ELSE err
              /\ storageProfile' = r.ref
              /\ IF r.err = ""
                 THEN /\ createPc' = "ComposeVApp"
                      /\ UNCHANGED <<createRet, failedSteps, last>>
                 ELSE /\ failedSteps' =
                           failedSteps \cup {"FindStorageProfileReference"}
                      /\ CreateReturn(r.err)
  /\ UNCHANGED <<driverVars, reqs, workerVars, sessionOpened, remoteVars>>

\* vdc.ComposeVApp: submit the compose task
Create_ComposeVApp ==
  /\ createPc = "ComposeVApp"
  /\ reqs' = Append(reqs, Request("ComposeVApp", storageProfile))
  /\ \E ok \in BOOLEAN :
       /\ ok => alive
       /\ err' = ~ok
       /\ IF ok
          THEN /\ createPc' = "ComposeVApp.Wait"
               /\ UNCHANGED <<createRet, failedSteps, last>>
          ELSE /\ failedSteps' = failedSteps \cup {"ComposeVApp"}
               /\ CreateReturn("ComposeVApp: error")
  /\ UNCHANGED <<driverVars, storageProfile, workerVars, sessionOpened,
                 remoteVars>>

\* task.WaitTaskCompletion of the compose task
Create_ComposeVApp_Wait ==
  /\ createPc = "ComposeVApp.Wait"
  /\ \E ok \in BOOLEAN, made \in BOOLEAN :
       /\ ok => (alive /\ made)
       /\ err' = ~ok
       /\ vappExists' = made
       /\ vappStatus' = IF made THEN "RESOLVED" ELSE vappStatus
       /\ IF ok
          THEN /\ createPc' = "GetVAppByName"
               /\ UNCHANGED <<createRet, failedSteps, last>>
          ELSE /\ failedSteps' = failedSteps \cup {"ComposeVApp.Wait"}
               /\ CreateReturn("ComposeVApp: task error")
  /\ UNCHANGED <<driverVars, storageProfile, reqs, workerVars, sessionOpened,
                 alive, vdcProfiles, nChildren, netSection>>

\* a count check that only rejects the vApp without children
VMCountWrong_none(n) == n < 1

\* len(vapp.VApp.Children.VM) != 1
VMCountWrong(n) == n # 1

\* vdc.GetVAppByName, the locator of the vApp, the child VM count
Create_GetVAppByName ==
  /\ createPc = "GetVAppByName"
  /\ \E ok \in BOOLEAN :
       /\ ok => (alive /\ vappExists)
       /\ err' = ~ok
       /\ IF ~ok
          THEN /\ failedSteps' = failedSteps \cup {"GetVAppByName"}
               /\ CreateReturn("GetVAppByName: not found")
               /\ UNCHANGED d
          ELSE /\ d' = [d EXCEPT !.VAppHREF = VAppRef]
               /\ IF VMCountWrong(nChildren)
                  THEN /\ failedSteps' = failedSteps \cup {"VM count"}
                       /\ CreateReturn("VM count != 1")
                  ELSE /\ createPc' = "vm.Refresh"
                       /\ UNCHANGED <<createRet, failedSteps, last>>
  /\ UNCHANGED <<phase, storageProfile, reqs, workerVars, sessionOpened,
                 remoteVars>>

\* vm.Refresh of the single child, the locator of the VM, and the go statement
Create_vm_Refresh ==
  /\ createPc = "vm.Refresh"
  /\ \E ok \in BOOLEAN :
       /\ ok => (alive /\ vappExists)
       /\ err' = ~ok
       /\ IF ok
          THEN /\ d' = [d EXCEPT !.VMHREF = VMRef(1)]
               /\ workerPc' = "status"
               /\ createPc' = "select"
               /\ UNCHANGED <<createRet, failedSteps, last>>
          ELSE /\ failedSteps' = failedSteps \cup {"vm.Refresh"}
               /\ CreateReturn("vm.Refresh: error")
               /\ UNCHANGED <<d, workerPc>>
  /\ UNCHANGED <<phase, storageProfile, reqs, status, cWait, vapp,
                 sessionOpened, remoteVars>>

\* a loop that ends on the first status it manages to read
PoweredOff_anyRead(s) == s # ""

\* status == "POWERED_OFF", the condition that ends the first loop
PoweredOff(s) == s = "POWERED_OFF"

\* the go func: poll vm.GetStatus until it reads POWERED_OFF
Worker_GetStatus ==
  /\ workerPc = "status"
  /\ \E s \in VAppStatuses \cup {""} :
       /\ s # "" => (alive /\ vappExists)
       /\ status' = s
       /\ workerPc' = IF PoweredOff(s) THEN "tasks" ELSE "status"
  /\ UNCHANGED <<driverVars, createVars, cWait, vapp, last, sessionOpened,
                 remoteVars>>

\* the second loop without its exit after the send
Worker_Refresh_resend ==
  /\ workerPc = "tasks"
  /\ \E refreshed \in BOOLEAN, tasksNil \in BOOLEAN :
       /\ refreshed => (alive /\ vappExists)
       /\ vapp' = [refresh |-> IF refreshed THEN "ok" ELSE "error",
                   tasksNil |-> tasksNil]
       /\ IF err
          THEN /\ Len(cWait) < 1
               /\ cWait' = Append(cWait, "err")
               /\ workerPc' = "done"
          ELSE IF tasksNil
          THEN /\ Len(cWait) < 1
               /\ cWait' = Append(cWait, "ok")
               /\ UNCHANGED workerPc
          ELSE UNCHANGED <<cWait, workerPc>>
  /\ UNCHANGED <<driverVars, createVars, status, last, sessionOpened,
                 remoteVars>>

\* the go func: refresh the vApp until it lists no tasks, then send; the
\* result of vapp.Refresh() is dropped and err is the err of Create
Worker_Refresh ==
  /\ workerPc = "tasks"
  /\ \E refreshed \in BOOLEAN, tasksNil \in BOOLEAN :
       /\ refreshed => (alive /\ vappExists)
       /\ vapp' = [refresh |-> IF refreshed THEN "ok" ELSE "error",
                   tasksNil |-> tasksNil]
       /\ IF err
          THEN /\ Len(cWait) < 1
               /\ cWait' = Append(cWait, "err")
               /\ workerPc' = "done"
          ELSE IF tasksNil
          THEN /\ Len(cWait) < 1
               /\ cWait' = Append(cWait, "ok")
               /\ workerPc' = "done"
          ELSE UNCHANGED <<cWait, workerPc>>
  /\ UNCHANGED <<driverVars, createVars, status, last, sessionOpened,
                 remoteVars>>

\* select, case res := <-cWait
Create_select_cWait ==
  /\ createPc = "select"
  /\ cWait # <<>>
  /\ cWait' = Tail(cWait)
  /\ IF Head(cWait) = "err"
     THEN /\ failedSteps' = failedSteps \cup {"wait"}
          /\ CreateReturn("error waiting for vApp deploy")
     ELSE /\ createPc' = "UpdateVmSpecSection"
          /\ UNCHANGED <<createRet, failedSteps, last>>
  /\ UNCHANGED <<driverVars, err, storageProfile, reqs, workerPc, status,
                 vapp, sessionOpened, remoteVars>>

\* a timeout that deletes the composed vApp before it returns
Create_select_After_rollback ==
  /\ createPc = "select"
  /\ failedSteps' = failedSteps \cup {"wait"}
  /\ reqs' = Append(reqs, Request("Delete", ""))
  /\ CreateReturn("reached timeout while deploying VM")
  /\ UNCHANGED <<driverVars, err, storageProfile, workerVars, sessionOpened,
                 remoteVars>>

\* a timeout that goes on with the hardware update instead of returning
Create_select_After_proceed ==
  /\ createPc = "select"
  /\ createPc' = "UpdateVmSpecSection"
  /\ UNCHANGED <<driverVars, createRet, failedSteps, last, err,
                 storageProfile, reqs, workerVars, sessionOpened, remoteVars>>

\* select, case <-time.After(15 * time.Minute)
Create_select_After ==
  /\ createPc = "select"
  /\ failedSteps' = failedSteps \cup {"wait"}
  /\ CreateReturn("reached timeout while deploying VM")
  /\ UNCHANGED <<driverVars, err, storageProfile, reqs, workerVars,
                 sessionOpened, remoteVars>>

\* the VmSpecSection check, vm.Refresh (result dropped), vm.UpdateVmSpecSection
Create_UpdateVmSpecSection ==
  /\ createPc = "UpdateVmSpecSection"
  /\ \E specNil \in BOOLEAN, ok \in BOOLEAN :
       /\ ok => (alive /\ vappExists)
       /\ IF specNil
          THEN /\ failedSteps' = failedSteps \cup {"VmSpecSection"}
               /\ CreateReturn("VM Spec Section empty")
               /\ UNCHANGED <<err, reqs>>
          ELSE /\ reqs' = Append(reqs, Request("UpdateVmSpecSection", ""))
               /\ err' = ~ok
               /\ IF ok
                  THEN /\ createPc' = "UpdateNetworkConnectionSection"
                       /\ UNCHANGED <<createRet, failedSteps, last>>
                  ELSE /\ failedSteps' =
                            failedSteps \cup {"UpdateVmSpecSection"}
                       /\ CreateReturn("UpdateVmSpecSection: error")
  /\ UNCHANGED <<driverVars, storageProfile, workerVars, sessionOpened,
                 remoteVars>>

\* the first connection of the section after the update was accepted
Connected(section) ==
  IF section.isNil \/ Len(section.NetworkConnection) < 1
  THEN [isNil |-> FALSE,
        NetworkConnection |-> <<[ExternalIPAddress |-> "", IPAddress |-> ""]>>]
  ELSE section

\* vm.UpdateNetworkConnectionSection; what it returns is dropped
Create_UpdateNetworkConnectionSection ==
  /\ createPc = "UpdateNetworkConnectionSection"
  /\ reqs' = Append(reqs, Request("UpdateNetworkConnectionSection", ""))
  /\ \E ok \in BOOLEAN :
       /\ ok => (alive /\ vappExists)
       /\ netSection' = IF ok THEN Connected(netSection) ELSE netSection
       /\ failedSteps' = IF ok THEN failedSteps
                         ELSE failedSteps \cup {"UpdateNetworkConnectionSection"}
  /\ createPc' = "SetGuestCustomizationSection"
  /\ UNCHANGED <<driverVars, createRet, err, storageProfile, workerVars, last,
                 sessionOpened, alive, vdcProfiles, nChildren, vappExists,
                 vappStatus>>

\* getGuestCustomizationScript, vm.SetGuestCustomizationSection, whose error
\* is overwritten by task.WaitTaskCompletion of the compose task
Create_SetGuestCustomizationSection ==
  /\ createPc = "SetGuestCustomizationSection"
  /\ \E keyOk \in BOOLEAN, ok \in BOOLEAN, waitOk \in BOOLEAN :
       /\ ok => (alive /\ vappExists)
       /\ waitOk => alive
       /\ IF ~keyOk
          THEN /\ err' = TRUE
               /\ failedSteps' =
                    failedSteps \cup {"getGuestCustomizationScript"}
               /\ CreateReturn("getGuestCustomizationScript: error")
               /\ UNCHANGED reqs
          ELSE /\ reqs' =
                    Append(reqs, Request("SetGuestCustomizationSection", ""))
               /\ err' = ~waitOk
               /\ IF waitOk
                  THEN /\ failedSteps' =
                            IF ok THEN failedSteps
                            ELSE failedSteps \cup
                                   {"SetGuestCustomizationSection"}
                       /\ createPc' = "PowerOn"
                       /\ UNCHANGED <<createRet, last>>
                  ELSE /\ failedSteps' =
                            failedSteps \cup
                              (IF ok THEN {}
                               ELSE {"SetGuestCustomizationSection"})
                              \cup {"WaitTaskCompletion"}
                       /\ CreateReturn("WaitTaskCompletion: error")
  /\ UNCHANGED <<driverVars, storageProfile, workerVars, sessionOpened,
                 remoteVars>>

\* vapp.PowerOn: submit the power-on task
Create_PowerOn ==
  /\ createPc = "PowerOn"
  /\ reqs' = Append(reqs, Request("PowerOn", ""))
  /\ \E ok \in BOOLEAN :
       /\ ok => (alive /\ vappExists)
       /\ err' = ~ok
       /\ IF ok
          THEN /\ createPc' = "PowerOn.Wait"
               /\ UNCHANGED <<createRet, failedSteps, last>>
          ELSE /\ failedSteps' = failedSteps \cup {"PowerOn"}
               /\ CreateReturn("PowerOn: error")
  /\ UNCHANGED <<driverVars, storageProfile, workerVars, sessionOpened,
                 remoteVars>>

\* a wait whose error is dropped
PowerOnWaitOk_dropped(ok) == TRUE

\* if err = task.WaitTaskCompletion(); err != nil, for the power-on task
PowerOnWaitOk(ok) == ok

\* task.WaitTaskCompletion of the power-on task, the two locators, return nil
Create_PowerOn_Wait ==
  /\ createPc = "PowerOn.Wait"
  /\ \E ok \in BOOLEAN, on \in BOOLEAN :
       /\ ok => (alive /\ vappExists /\ on)
       /\ on => vappExists
       /\ vappStatus' = IF on THEN "POWERED_ON" ELSE vappStatus
       /\ err' = ~PowerOnWaitOk(ok)
       /\ IF PowerOnWaitOk(ok)
          THEN /\ d' = [d EXCEPT !.VAppHREF = VAppRef, !.VMHREF = VMRef(1)]
               /\ UNCHANGED failedSteps
               /\ CreateReturn("nil")
          ELSE /\ failedSteps' = failedSteps \cup {"PowerOn.Wait"}
               /\ CreateReturn("PowerOn: task error")
               /\ UNCHANGED d
  /\ UNCHANGED <<phase, storageProfile, reqs, workerVars, sessionOpened,
                 alive, vdcProfiles, nChildren, vappExists, netSection>>

\* ------------------------------------------------------------- control plane
\* a remote event: nothing was returned to the caller
RemoteEvent == [op |-> "remote", val |-> "", err |-> "", next |-> FALSE] @@ NoTrace

\* the control plane goes down, or comes back
RemoteAvailability ==
  /\ alive' = ~alive
  /\ last' = RemoteEvent
  /\ UNCHANGED <<driverVars, createVars, workerVars, sessionOpened,
                 vdcProfiles, nChildren, vappExists, vappStatus, netSection>>

\* the vApp changes status out of band
RemoteStatus ==
  /\ vappExists
  /\ \E s \in VAppStatuses \ {vappStatus} : vappStatus' = s
  /\ last' = RemoteEvent
  /\ UNCHANGED <<driverVars, createVars, workerVars, sessionOpened, alive,
                 vdcProfiles, nChildren, vappExists, netSection>>

\* the adapters of the child VM, or their addresses, change
RemoteNetwork ==
  /\ vappExists
  /\ nChildren >= 1
  /\ \E n \in NetSections \ {netSection} : netSection' = n
  /\ last' = RemoteEvent
  /\ UNCHANGED <<driverVars, createVars, workerVars, sessionOpened, alive,
                 vdcProfiles, nChildren, vappExists, vappStatus>>

\* the vApp is deleted out of band
RemoteDelete ==
  /\ vappExists
  /\ vappExists' = FALSE
  /\ last' = RemoteEvent
  /\ UNCHANGED <<driverVars, createVars, workerVars, sessionOpened, alive,
                 vdcProfiles, nChildren, vappStatus, netSection>>

\* ------------------------------------------------------------------ helpers
\* one remote call of a lookup helper and the error it gave ("" for none)
Call(name, e) == [call |-> name, err |-> e]

\* getVApp that looks the vApp up by name whatever VAppHREF holds
getVApp_lookupAlways(dd, byName) ==
  IF ~alive
  THEN [err |-> "unable to authenticate to Org", d |-> dd,
        calls |-> <<Call("newClient", "unable to authenticate to Org")>>]
  ELSE IF byName /\ vappExists
  THEN [err |-> "", d |-> [dd EXCEPT !.VAppHREF = VAppRef],
        calls |-> <<Call("GetVAppByName", "")>>]
  ELSE [err |-> "vApp not found", d |-> dd,
        calls |-> <<Call("GetVAppByName", "vApp not found")>>]

\* getVApp that falls back to the lookup by name when the refresh fails
getVApp_fallback(dd, byName) ==
  IF ~alive
  THEN [err |-> "unable to authenticate to Org", d |-> dd,
        calls |-> <<Call("newClient", "unable to authenticate to Org")>>]
  ELSE IF dd.VAppHREF # "" /\ vappExists /\ dd.VAppHREF = VAppRef
  THEN [err |-> "", d |-> dd, calls |-> <<Call("vapp.Refresh", "")>>]
  ELSE LET tried == IF dd.VAppHREF # ""
                    THEN <<Call("vapp.Refresh", "error refreshing vApp")>>
                    ELSE <<>>
       IN  IF byName /\ vappExists
           THEN [err |-> "", d |-> [dd EXCEPT !.VAppHREF = VAppRef],
                 calls |-> tried \o <<Call("GetVAppByName", "")>>]
           ELSE [err |-> "vApp not found", d |-> dd,
                 calls |-> tried \o
                             <<Call("GetVAppByName", "vApp not found")>>]

\* getVApp that forgets a locator whose refresh failed
getVApp_forget(dd, byName) ==
  IF ~alive
  THEN [err |-> "unable to authenticate to Org", d |-> dd,
        calls |-> <<Call("newClient", "unable to authenticate to Org")>>]
  ELSE IF dd.VAppHREF # ""
  THEN IF vappExists /\ dd.VAppHREF = VAppRef
       THEN [err |-> "", d |-> dd, calls |-> <<Call("vapp.Refresh", "")>>]
       ELSE [err |-> "error refreshing vApp",
             d |-> [dd EXCEPT !.VAppHREF = ""],
             calls |-> <<Call("vapp.Refresh", "error refreshing vApp")>>]
  ELSE IF byName /\ vappExists
  THEN [err |-> "", d |-> [dd EXCEPT !.VAppHREF = VAppRef],
        calls |-> <<Call("GetVAppByName", "")>>]
  ELSE [err |-> "vApp not found", d |-> dd,
        calls |-> <<Call("GetVAppByName", "vApp not found")>>]

\* getVApp: by the stored locator when there is one, else by machine name,
\* recording the locator found; byName is the outcome of the lookups by name;
\* calls is the call that decided the result
getVApp(dd, byName) ==
  IF ~alive
  THEN [err |-> "unable to authenticate to Org", d |-> dd,
        calls |-> <<Call("newClient", "unable to authenticate to Org")>>]
  ELSE IF dd.VAppHREF # ""
  THEN IF vappExists /\ dd.VAppHREF = VAppRef
       THEN [err |-> "", d |-> dd, calls |-> <<Call("vapp.Refresh", "")>>]
       ELSE [err |-> "error refreshing vApp", d |-> dd,
             calls |-> <<Call("vapp.Refresh", "error refreshing vApp")>>]
  ELSE IF byName /\ vappExists
  THEN [err |-> "", d |-> [dd EXCEPT !.VAppHREF = VAppRef],
        calls |-> <<Call("GetVAppByName", "")>>]
  ELSE [err |-> "vApp not found", d |-> dd,
        calls |-> <<Call("GetVAppByName", "vApp not found")>>]

\* getVM: by the stored locator when there is one, else the single child of
\* the vApp, recording its locator
getVM(dd, byName) ==
  IF ~alive
  THEN [err |-> "unable to authenticate to Org", d |-> dd,
        calls |-> <<Call("newClient", "unable to authenticate to Org")>>]
  ELSE IF dd.VMHREF # ""
  THEN IF vappExists /\ nChildren >= 1 /\ dd.VMHREF = VMRef(1)
       THEN [err |-> "", d |-> dd, calls |-> <<Call("vm.Refresh", "")>>]
       ELSE [err |-> "error refreshing VM", d |-> dd,
             calls |-> <<Call("vm.Refresh", "error refreshing VM")>>]
  ELSE LET r == getVApp(dd, byName)
       IN  IF r.err # "" THEN r
           ELSE IF nChildren # 1
           THEN [err |-> "VM count != 1", d |-> r.d, calls |-> r.calls]
           ELSE [err |-> "", d |-> [r.d EXCEPT !.VMHREF = VMRef(1)],
                 calls |-> r.calls \o <<Call("vm.Refresh", "")>>]

\* ----------------------------------------------------------------- GetState
\* the switch with the two power states only
StateOf_powerOnly(s) ==
  CASE s = "POWERED_ON" -> "Running"
    [] s = "POWERED_OFF" -> "Stopped"
    [] OTHER -> "None"

\* the switch on the status string
StateOf(s) ==
  CASE s = "POWERED_ON" -> "Running"
    [] s = "POWERED_OFF" -> "Stopped"
    [] s = "MIXED" -> "Error"
    [] s = "UNRESOLVED" -> "Error"
    [] OTHER -> "None"

\* GetState that keeps reporting the failure of the GetState before it
GetState_sticky ==
  /\ createPc = "done"
  /\ sessionOpened' = TRUE
  /\ \E byName \in BOOLEAN, outage \in BOOLEAN :
       LET r == getVApp(d, byName)
           isNext == last.op = "Create" /\ createRet = "nil"
           isRetry == last.op = "GetState" /\ last.err # ""
       IN  /\ d' = r.d
           /\ IF r.err # "" \/ isRetry
              THEN /\ last' = [op |-> "GetState", val |-> "Error",
                               err |-> IF r.err # "" THEN r.err ELSE last.err,
                               next |-> isNext,
                               retry |-> isRetry, tasks |-> <<>>,
                               calls |-> r.calls]
                   /\ UNCHANGED alive
              ELSE IF outage
              THEN /\ last' = [op |-> "GetState", val |-> "Error",
                               err |-> "error refreshing vApp",
                               next |-> FALSE, retry |-> isRetry,
                               tasks |-> <<>>,
                               calls |-> r.calls \o
                                 <<Call("vapp.GetStatus",
                                        "error refreshing vApp")>>]
                   /\ alive' = FALSE
              ELSE /\ last' = [op |-> "GetState", val |-> StateOf(vappStatus),
                               err |-> "", next |-> isNext,
                               retry |-> isRetry, tasks |-> <<>>,
                               calls |-> r.calls \o
                                 <<Call("vapp.GetStatus", "")>>]
                   /\ UNCHANGED alive
  /\ UNCHANGED <<phase, createVars, workerVars, vdcProfiles, nChildren,
                 vappExists, vappStatus, netSection>>

\* GetState; outage: the control plane goes down between getVApp and the
\* status read
GetState ==
  /\ createPc = "done"
  /\ sessionOpened' = TRUE
  /\ \E byName \in BOOLEAN, outage \in BOOLEAN :
       LET r == getVApp(d, byName)
           isNext == last.op = "Create" /\ createRet = "nil"
           isRetry == last.op = "GetState" /\ last.err # ""
       IN  /\ d' = r.d
           /\ IF r.err # ""
              THEN /\ last' = [op |-> "GetState", val |-> "Error",
                               err |-> r.err, next |-> isNext,
                               retry |-> isRetry, tasks |-> <<>>,
                               calls |-> r.calls]
                   /\ UNCHANGED alive
              ELSE IF outage
              THEN /\ last' = [op |-> "GetState", val |-> "Error",
                               err |-> "error refreshing vApp",
                               next |-> FALSE, retry |-> isRetry,
                               tasks |-> <<>>,
                               calls |-> r.calls \o
                                 <<Call("vapp.GetStatus",
                                        "error refreshing vApp")>>]
                   /\ alive' = FALSE
              ELSE /\ last' = [op |-> "GetState", val |-> StateOf(vappStatus),
                               err |-> "", next |-> isNext,
                               retry |-> isRetry, tasks |-> <<>>,
                               calls |-> r.calls \o
                                 <<Call("vapp.GetStatus", "")>>]
                   /\ UNCHANGED alive
  /\ UNCHANGED <<phase, createVars, workerVars, vdcProfiles, nChildren,
                 vappExists, vappStatus, netSection>>

\* -------------------------------------------------------------------- GetIP
\* the range loop over the adapters from position i: the first address it
\* returns, "" when it falls through
RECURSIVE ScanNetworks(_, _)
ScanNetworks(networks, i) ==
  IF i > Len(networks) THEN ""
  ELSE IF networks[i].ExternalIPAddress # ""
  THEN networks[i].ExternalIPAddress
  ELSE IF networks[i].IPAddress # ""
  THEN networks[i].IPAddress
  ELSE ScanNetworks(networks, i + 1)

GetIP ==
  /\ createPc = "done"
  /\ sessionOpened' = TRUE
  /\ \E byName \in BOOLEAN :
       LET r == getVM(d, byName)
           ip == IF netSection.isNil THEN ""
                 ELSE ScanNetworks(netSection.NetworkConnection, 1)
       IN  /\ d' = r.d
           /\ last' = IF r.err # ""
                      THEN [op |-> "GetIP", val |-> "", err |-> r.err,
                            next |-> FALSE, retry |-> FALSE, tasks |-> <<>>,
                            calls |-> r.calls]
                      ELSE IF ip # ""
                      THEN [op |-> "GetIP", val |-> ip, err |-> "",
                            next |-> FALSE, retry |-> FALSE, tasks |-> <<>>,
                            calls |-> r.calls]
                      ELSE [op |-> "GetIP", val |-> "",
                            err |-> "could not get public IP",
                            next |-> FALSE, retry |-> FALSE, tasks |-> <<>>,
                            calls |-> r.calls]
  /\ UNCHANGED <<phase, createVars, workerVars, remoteVars>>

Next ==
  \/ SetConfigFromFlags
  \/ Create_newClient
  \/ Create_lookup
  \/ Create_storageProfile
  \/ Create_ComposeVApp
  \/ Create_ComposeVApp_Wait
  \/ Create_GetVAppByName
  \/ Create_vm_Refresh
  \/ Worker_GetStatus
  \/ Worker_Refresh
  \/ Create_select_cWait
  \/ Create_select_After
  \/ Create_UpdateVmSpecSection
  \/ Create_UpdateNetworkConnectionSection
  \/ Create_SetGuestCustomizationSection
  \/ Create_PowerOn
  \/ Create_PowerOn_Wait
  \/ GetState
  \/ RemoteAvailability
  \/ RemoteStatus
  \/ RemoteDelete

Spec == Init /\ [][Next]_vars

\* ---------------------------------------------------------- address queries
\* the driver after Create has returned: with both locators (Create went past
\* the refresh of the child VM), with the vApp locator only (the child VM
\* count was not one), or with none (the composed vApp was not found)
InitIP ==
  /\ \E made \in {"vm", "vapp", "none"} :
       /\ d = [NewDriver EXCEPT
                 !.VcdURL = "https://vcd", !.VcdOrg = "v", !.VcdVdc = "v",
                 !.VcdUser = "v", !.VcdPassword = "v",
                 !.VcdOrgVDCNetwork = "v", !.Catalog = "v", !.Template = "v",
                 !.VAppHREF = IF made = "none" THEN "" ELSE VAppRef,
                 !.VMHREF = IF made = "vm" THEN VMRef(1) ELSE ""]
       /\ nChildren \in IF made = "vm" THEN {1}
                         ELSE IF made = "vapp" THEN (0..MaxChildren) \ {1}
                         ELSE 0..MaxChildren
       /\ createRet = IF made = "vm"
                      THEN "reached timeout while deploying VM"
                      ELSE IF made = "vapp" THEN "VM count != 1"
                      ELSE "GetVAppByName: not found"
       /\ failedSteps = IF made = "vm" THEN {"wait"}
                        ELSE IF made = "vapp" THEN {"VM count"}
                        ELSE {"GetVAppByName"}
       /\ err = (made = "none")
       /\ workerPc = IF made = "vm" THEN "status" ELSE "none"
  /\ phase = "configured"
  /\ createPc = "done"
  /\ storageProfile = "gold"
  /\ reqs = <<Request("ComposeVApp", "gold")>>
  /\ status = ""
  /\ cWait = <<>>
  /\ vapp = NotRefreshed
  /\ last = [op |-> "Create", val |-> "", err |-> createRet, next |-> FALSE] @@ NoTrace
  /\ sessionOpened = TRUE
  /\ alive \in BOOLEAN
  /\ vdcProfiles = <<"gold">>
  /\ vappExists = TRUE
  /\ vappStatus = "RESOLVED"
  /\ netSection \in NetSections

NextIP ==
  \/ GetIP
  \/ RemoteNetwork
  \/ RemoteAvailability
  \/ RemoteDelete

SpecIP == InitIP /\ [][NextIP]_vars

\* ------------------------------------------------------- power operations
\* a task submitted on the vApp: the status the vApp had when it was
\* submitted, and whether WaitTaskCompletion reported it completed
Task(name, st, done) == [task |-> name, status |-> st, completed |-> done]

\* the call that submits a task on the vApp, accepted or refused
TaskCall(name, accepted) ==
  Call("vapp." \o name, IF accepted THEN "" ELSE name \o ": error")

\* getVApp run while the control plane answers (up) or does not
getVAppWhen(dd, byName, up) ==
  IF up THEN getVApp(dd, byName)
  ELSE [err |-> "unable to authenticate to Org", d |-> dd,
        calls |-> <<Call("newClient", "unable to authenticate to Org")>>]

\* what getVApp can return now: the lookup by name finds the vApp or not,
\* the control plane answers the call or not
getVAppOutcomes(dd) ==
  {getVAppWhen(dd, byName, up) : byName \in BOOLEAN, up \in {alive, FALSE}}

\* the error of a task call that does not wait for the task
PowerResult_noWait(task, submitted, completed) ==
  IF ~submitted THEN task \o ": error" ELSE ""

\* the error of a task call followed by WaitTaskCompletion ("" for nil)
PowerResult(task, submitted, completed) ==
  IF ~submitted THEN task \o ": error"
  ELSE IF ~completed THEN task \o ": task failed"
  ELSE ""

\* getVApp, one task on the vApp, WaitTaskCompletion: the body that Start,
\* Stop, Kill and Restart share; target is the status the completed task
\* leaves the vApp in
PowerOperation(op, task, target) ==
  /\ createPc = "done"
  /\ sessionOpened' = TRUE
  /\ \E r \in getVAppOutcomes(d), submitted \in {alive, FALSE},
        completed \in BOOLEAN :
       /\ completed => submitted
       /\ LET ret(e, ts, cs) == [op |-> op, val |-> "", err |-> e,
                                 next |-> FALSE, retry |-> FALSE,
                                 tasks |-> ts, calls |-> r.calls \o cs]
          IN  /\ d' = r.d
              /\ IF r.err # ""
                 THEN /\ last' = ret(r.err, <<>>, <<>>)
                      /\ UNCHANGED vappStatus
                 ELSE /\ last' = ret(PowerResult(task, submitted, completed),
                                     IF submitted
                                     THEN <<Task(task, vappStatus, completed)>>
                                     ELSE <<>>,
                                     <<TaskCall(task, submitted)>>)
                      /\ vappStatus' = IF completed THEN target
                                       ELSE vappStatus
  /\ UNCHANGED <<phase, createVars, workerVars, alive, vdcProfiles, nChildren,
                 vappExists, netSection>>

Start == PowerOperation("Start", "PowerOn", "POWERED_ON")

\* "Stop a host not so gracefully"
Stop == PowerOperation("Stop", "PowerOff", "POWERED_OFF")

Kill == PowerOperation("Kill", "PowerOff", "POWERED_OFF")

Restart == PowerOperation("Restart", "Reboot", "POWERED_ON")

\* ------------------------------------------------------------------- Remove
\* the probe of the control plane: the client, the organization, the
\* datacenter and the network all answer
vcdSeemsAlive(up) == up

\* the first part of Remove where a failed second getVApp returns its error
RemoveLookup_secondErr(deleteWhenFailed, r1, seemsAlive, r2) ==
  IF r1.err = ""
  THEN [ret |-> "vapp", err |-> "", d |-> r1.d, calls |-> r1.calls]
  ELSE IF ~deleteWhenFailed
  THEN [ret |-> "err", err |-> r1.err, d |-> r1.d, calls |-> r1.calls]
  ELSE IF seemsAlive
  THEN [ret |-> IF r2.err # "" THEN "err" ELSE "vapp", err |-> r2.err,
        d |-> r2.d,
        calls |-> r1.calls \o <<Call("vcdSeemsAlive", "")>> \o r2.calls]
  ELSE [ret |-> "err", err |-> r1.err, d |-> r1.d,
        calls |-> r1.calls \o <<Call("vcdSeemsAlive", "dead")>>]

\* the first part of Remove that reports success as soon as the probe answers
RemoveLookup_earlySuccess(deleteWhenFailed, r1, seemsAlive, r2) ==
  IF r1.err = ""
  THEN [ret |-> "vapp", err |-> "", d |-> r1.d, calls |-> r1.calls]
  ELSE IF ~deleteWhenFailed
  THEN [ret |-> "err", err |-> r1.err, d |-> r1.d, calls |-> r1.calls]
  ELSE IF seemsAlive
  THEN [ret |-> "nil", err |-> "", d |-> r2.d,
        calls |-> r1.calls \o <<Call("vcdSeemsAlive", "")>> \o r2.calls]
  ELSE [ret |-> "err", err |-> r1.err, d |-> r1.d,
        calls |-> r1.calls \o <<Call("vcdSeemsAlive", "dead")>>]

\* the first part of Remove that never looks at DeleteWhenFailed
RemoveLookup_always(deleteWhenFailed, r1, seemsAlive, r2) ==
  IF r1.err = ""
  THEN [ret |-> "vapp", err |-> "", d |-> r1.d, calls |-> r1.calls]
  ELSE IF seemsAlive
  THEN [ret |-> IF r2.err # "" THEN "nil" ELSE "vapp", err |-> "",
        d |-> r2.d,
        calls |-> r1.calls \o <<Call("vcdSeemsAlive", "")>> \o r2.calls]
  ELSE [ret |-> "err", err |-> r1.err, d |-> r1.d,
        calls |-> r1.calls \o <<Call("vcdSeemsAlive", "dead")>>]

\* the first part of Remove: r1 is the first getVApp, seemsAlive the probe,
\* r2 the second getVApp; ret is "err" (return the error), "nil" (report
\* success) or "vapp" (go on with the vApp)
RemoveLookup(deleteWhenFailed, r1, seemsAlive, r2) ==
  IF r1.err = ""
  THEN [ret |-> "vapp", err |-> "", d |-> r1.d, calls |-> r1.calls]
  ELSE IF ~deleteWhenFailed
  THEN [ret |-> "err", err |-> r1.err, d |-> r1.d, calls |-> r1.calls]
  ELSE IF seemsAlive
  THEN [ret |-> IF r2.err # "" THEN "nil" ELSE "vapp", err |-> "",
        d |-> r2.d,
        calls |-> r1.calls \o <<Call("vcdSeemsAlive", "")>> \o r2.calls]
  ELSE [ret |-> "err", err |-> r1.err, d |-> r1.d,
        calls |-> r1.calls \o <<Call("vcdSeemsAlive", "dead")>>]

\* the second part of Remove, with the vApp resolved: PowerOff and its wait
\* when it was submitted, then Delete and its wait
RemoveTasks(look) ==
  \E offOk \in {alive, FALSE}, offDone \in BOOLEAN,
     delOk \in {alive, FALSE}, delDone \in BOOLEAN :
    /\ offDone => offOk
    /\ delDone => delOk
    /\ LET ret(e, ts, cs) == [op |-> "Remove", val |-> "", err |-> e,
                              next |-> FALSE, retry |-> FALSE, tasks |-> ts,
                              calls |-> look.calls \o cs]
           off == IF offOk
                  THEN <<Task("PowerOff", vappStatus, offDone)>>
                  ELSE <<>>
           offCall == <<TaskCall("PowerOff", offOk)>>
           st == IF offOk /\ offDone THEN "POWERED_OFF" ELSE vappStatus
       IN  IF offOk /\ ~offDone
           THEN /\ last' = ret("PowerOff: task failed", off, offCall)
                /\ UNCHANGED <<vappExists, vappStatus>>
           ELSE IF ~delOk
           THEN /\ last' = ret("Delete: error", off,
                               offCall \o <<TaskCall("Delete", FALSE)>>)
                /\ vappStatus' = st
                /\ UNCHANGED vappExists
           ELSE IF ~delDone
           THEN /\ last' = ret("Delete: task failed",
                               off \o <<Task("Delete", st, FALSE)>>,
                               offCall \o <<TaskCall("Delete", TRUE)>>)
                /\ vappStatus' = st
                /\ UNCHANGED vappExists
           ELSE /\ last' = ret("", off \o <<Task("Delete", st, TRUE)>>,
                               offCall \o <<TaskCall("Delete", TRUE)>>)
                /\ vappStatus' = st
                /\ vappExists' = FALSE

Remove ==
  /\ createPc = "done"
  /\ sessionOpened' = TRUE
  /\ \E r1 \in getVAppOutcomes(d), probe \in {alive, FALSE} :
       \E r2 \in getVAppOutcomes(r1.d) :
         LET look == RemoveLookup(d.DeleteWhenFailed, r1,
                                  vcdSeemsAlive(probe), r2)
         IN  /\ d' = look.d
             /\ IF look.ret # "vapp"
                THEN /\ last' = [op |-> "Remove", val |-> "",
                                 err |-> look.err, next |-> FALSE,
                                 retry |-> FALSE, tasks |-> <<>>,
                                 calls |-> look.calls]
                     /\ UNCHANGED <<vappExists, vappStatus>>
                ELSE RemoveTasks(look)
  /\ UNCHANGED <<phase, createVars, workerVars, alive, vdcProfiles, nChildren,
                 netSection>>

\* ------------------------------------------------------------------- GetURL
\* a check that passes on any state GetState returns without an error
MustBeRunning_any(st, e) == e

\* drivers.MustBeRunning on what GetState returned: the error ("" for nil)
MustBeRunning(st, e) ==
  IF e # "" THEN e
  ELSE IF st # "Running" THEN "host is not running"
  ELSE ""

\* net.JoinHostPort for a host without a colon
JoinHostPort(host, port) == host \o ":" \o port

\* what GetIP returns with the driver dd
IPOf(dd, byName) ==
  LET r == getVM(dd, byName)
      ip == IF netSection.isNil THEN ""
            ELSE ScanNetworks(netSection.NetworkConnection, 1)
  IN  [val |-> IF r.err = "" THEN ip ELSE "",
       err |-> IF r.err # "" THEN r.err
               ELSE IF ip # "" THEN ""
               ELSE "could not get public IP",
       d |-> r.d, calls |-> r.calls]

GetSSHHostname ==
  /\ createPc = "done"
  /\ sessionOpened' = TRUE
  /\ \E byName \in BOOLEAN :
       LET r == IPOf(d, byName)
       IN  /\ d' = r.d
           /\ last' = [op |-> "GetSSHHostname", val |-> r.val, err |-> r.err,
                       next |-> FALSE, retry |-> FALSE, tasks |-> <<>>,
                       calls |-> r.calls]
  /\ UNCHANGED <<phase, createVars, workerVars, remoteVars>>

GetURL ==
  /\ createPc = "done"
  /\ sessionOpened' = TRUE
  /\ \E byName1 \in BOOLEAN, byName2 \in BOOLEAN :
       LET r == getVApp(d, byName1)
           st == IF r.err # "" THEN "Error" ELSE StateOf(vappStatus)
           e == MustBeRunning(st, r.err)
           a == IPOf(r.d, byName2)
           ret(v, ee, cs) == [op |-> "GetURL", val |-> v, err |-> ee,
                              next |-> FALSE, retry |-> FALSE,
                              tasks |-> <<>>, calls |-> cs]
       IN  IF e # ""
           THEN /\ d' = r.d
                /\ last' = ret("", e, r.calls)
           ELSE /\ d' = a.d
                /\ last' = IF a.err # ""
                           THEN ret("", a.err, r.calls \o a.calls)
                           ELSE ret("tcp://" \o
                                      JoinHostPort(a.val,
                                                   ToString(d.DockerPort)),
                                    "", r.calls \o a.calls)
  /\ UNCHANGED <<phase, createVars, workerVars, remoteVars>>

\* ------------------------------------------------------- machine lifecycle
\* the adapters the lifecycle runs see: no section, or one adapter
OpsNetSections ==
  {n \in NetSections : Len(n.NetworkConnection) <= 1}

\* the driver after Create has returned: as in InitIP, or after a Create that
\* returned nil ("ok"), with the delete-when-failed policy either way
InitOps ==
  /\ \E made \in {"ok", "vm", "vapp", "none"} :
       /\ d \in {[NewDriver EXCEPT
                 !.VcdURL = "https://vcd", !.VcdOrg = "v", !.VcdVdc = "v",
                 !.VcdUser = "v", !.VcdPassword = "v",
                 !.VcdOrgVDCNetwork = "v", !.Catalog = "v", !.Template = "v",
                 !.DeleteWhenFailed = dwf,
                 !.VAppHREF = IF made = "none" THEN "" ELSE VAppRef,
                 !.VMHREF = IF made \in {"ok", "vm"} THEN VMRef(1) ELSE ""] :
               dwf \in BOOLEAN}
       /\ nChildren \in IF made \in {"ok", "vm"} THEN {1}
                         ELSE IF made = "vapp" THEN (0..MaxChildren) \ {1}
                         ELSE 0..MaxChildren
       /\ createRet = IF made = "ok" THEN "nil"
                      ELSE IF made = "vm"
                      THEN "reached timeout while deploying VM"
                      ELSE IF made = "vapp" THEN "VM count != 1"
                      ELSE "GetVAppByName: not found"
       /\ failedSteps = IF made = "ok" THEN {}
                        ELSE IF made = "vm" THEN {"wait"}
                        ELSE IF made = "vapp" THEN {"VM count"}
                        ELSE {"GetVAppByName"}
       /\ err = (made = "none")
       /\ workerPc = IF made = "ok" THEN "done"
                     ELSE IF made = "vm" THEN "status" ELSE "none"
       /\ status = IF made = "ok" THEN "POWERED_OFF" ELSE ""
       /\ reqs = IF made = "ok"
                 THEN <<Request("ComposeVApp", "gold"),
                        Request("UpdateVmSpecSection", ""),
                        Request("UpdateNetworkConnectionSection", ""),
                        Request("SetGuestCustomizationSection", ""),
                        Request("PowerOn", "")>>
                 ELSE <<Request("ComposeVApp", "gold")>>
       /\ vappStatus = IF made = "ok" THEN "POWERED_ON" ELSE "RESOLVED"
  /\ phase = "configured"
  /\ createPc = "done"
  /\ storageProfile = "gold"
  /\ cWait = <<>>
  /\ vapp = IF createRet = "nil"
            THEN [refresh |-> "ok", tasksNil |-> TRUE]
            ELSE NotRefreshed
  /\ last = [op |-> "Create", val |-> "", err |-> createRet, next |-> FALSE] @@ NoTrace
  /\ sessionOpened = TRUE
  /\ alive = TRUE
  /\ vdcProfiles = <<"gold">>
  /\ vappExists = TRUE
  /\ netSection \in OpsNetSections

NextOps ==
  \/ Start
  \/ Stop
  \/ Kill
  \/ Restart
  \/ Remove
  \/ GetState
  \/ GetIP
  \/ GetSSHHostname
  \/ GetURL
  \/ RemoteAvailability
  \/ RemoteStatus
  \/ RemoteDelete

SpecOps == InitOps /\ [][NextOps]_vars

\* ------------------------------------------------------------------ claims
\* the names of the requests Create has sent
ReqNames == {reqs[i].req : i \in 1..Len(reqs)}

\* Create has returned an error
CreateFailed == createPc = "done" /\ createRet \notin {"running", "nil"}

\* the positions of Create up to and including the lookup of the composed vApp
UpToGetVAppByName ==
  {"idle", "FindStorageProfileReference", "ComposeVApp", "ComposeVApp.Wait",
   "GetVAppByName"} \cup Range(LookupSteps)

\* the positions of Create after the select
AfterSelect ==
  {"UpdateVmSpecSection", "UpdateNetworkConnectionSection",
   "SetGuestCustomizationSection", "PowerOn", "PowerOn.Wait"}

\* the requests Create sends after the select
LaterRequests ==
  {"UpdateVmSpecSection", "UpdateNetworkConnectionSection",
   "SetGuestCustomizationSection", "PowerOn"}

\* C1: as soon as a step of Create has failed, Create has returned an error
\* and runs no later step; Create never returns success, and never sends the
\* power-on, after a failed network-connection or guest-customization update.
C1_FailureAbortsCreate ==
  /\ failedSteps # {} => CreateFailed
  /\ createRet = "nil" => failedSteps = {}
  /\ "PowerOn" \in ReqNames =>
       failedSteps \cap {"UpdateNetworkConnectionSection",
                         "SetGuestCustomizationSection"} = {}

\* C2: when Create has returned an error, neither VAppHREF nor VMHREF is
\* recorded on the driver.
C2_NoLocatorAfterFailure ==
  (last.op = "Create" /\ CreateFailed) => (d.VAppHREF = "" /\ d.VMHREF = "")

\* C3: when the vApp found after composition does not have exactly one child
\* VM, Create has failed with the VM-count error, no poll goroutine was
\* started and nothing but the compose request was ever sent.
C3_VMCountAborts ==
  ( /\ createPc \notin UpToGetVAppByName
    /\ failedSteps \cap ({"newClient", "FindStorageProfileReference",
                          "ComposeVApp", "ComposeVApp.Wait", "GetVAppByName"}
                         \cup Range(LookupSteps)) = {}
    /\ nChildren # 1 )
  => ( /\ createPc = "done"
       /\ createRet = "VM count != 1"
       /\ workerPc = "none"
       /\ cWait = <<>>
       /\ ReqNames = {"ComposeVApp"} )

C3_Witness ==
  createRet = "VM count != 1" /\ nChildren = 2 /\ ReqNames = {"ComposeVApp"}

\* the configured storage profile cannot be resolved in the datacenter
Unresolvable ==
  \/ d.StorageProfile # "" /\ d.StorageProfile \notin Range(vdcProfiles)
  \/ d.StorageProfile = "" /\ vdcProfiles = <<>>

\* C4: when the storage profile cannot be resolved, Create fails at that step
\* and sends no compose request; a compose request carries the configured
\* profile whenever one is configured, never the datacenter's first one.
C4_NoComposeWithoutProfile ==
  /\ (phase = "configured" /\ Unresolvable) =>
       /\ reqs = <<>>
       /\ createPc \in {"idle", "FindStorageProfileReference", "done"}
                         \cup Range(LookupSteps)
       /\ createRet # "nil"
  /\ \A i \in 1..Len(reqs) :
       (reqs[i].req = "ComposeVApp" /\ d.StorageProfile # "") =>
         reqs[i].arg = d.StorageProfile

C4_Witness ==
  /\ d.StorageProfile = "gold"
  /\ vdcProfiles = <<"silver">>
  /\ "FindStorageProfileReference" \in failedSteps
  /\ CreateFailed
  /\ reqs = <<>>

\* one of the eight required options is empty on the driver
RequiredEmpty ==
  \/ d.VcdURL = ""
  \/ d.VcdOrg = ""
  \/ d.VcdVdc = ""
  \/ d.VcdUser = ""
  \/ d.VcdPassword = ""
  \/ d.VcdOrgVDCNetwork = ""
  \/ d.Catalog = ""
  \/ d.Template = ""

\* C5: SetConfigFromFlags returns an error whenever one of url, org, vdc, user,
\* password, network, catalog, template is empty, and whether it fails or
\* succeeds no session has been opened when it returns.
C5_ValidationBeforeNetwork ==
  /\ (phase # "new" /\ RequiredEmpty) => phase = "rejected"
  /\ (phase # "new" /\ createPc = "idle") => ~sessionOpened
  /\ (last.op = "SetConfigFromFlags" /\ createPc = "idle") =>
       (phase = "rejected") = (last.err # "")

C5_Witness ==
  /\ last.op = "SetConfigFromFlags"
  /\ last.err = "please specify the mandatory parameters"
  /\ d.Template = ""
  /\ d.VcdOrg # "" /\ d.VcdVdc # "" /\ d.VcdUser # "" /\ d.VcdPassword # ""
  /\ d.VcdOrgVDCNetwork # "" /\ d.Catalog # ""
  /\ ~sessionOpened

\* C6: the poll goroutine leaves its first loop only with status POWERED_OFF,
\* and Create is past the select, or has sent the hardware-spec update or a
\* later request, only when the goroutine has read POWERED_OFF and finished.
C6_HardwareAfterPoweredOff ==
  /\ workerPc \in {"tasks", "done"} => status = "POWERED_OFF"
  /\ (createPc \in AfterSelect \/ ReqNames \cap LaterRequests # {}) =>
       (workerPc = "done" /\ status = "POWERED_OFF")
  /\ (workerPc = "status" /\ createPc # "done") => createPc = "select"

C6_Witness ==
  /\ "UpdateVmSpecSection" \in ReqNames
  /\ workerPc = "done"
  /\ status = "POWERED_OFF"

\* C7: when the timer fires first, Create returns the deploy-timeout error
\* having sent nothing but the compose request: no delete, no power-off, no
\* hardware, network, guest-customization or power-on request; the goroutine
\* is left wherever it is.
C7_TimeoutNoRollback ==
  createRet = "reached timeout while deploying VM" =>
    /\ createPc = "done"
    /\ reqs = <<Request("ComposeVApp", storageProfile)>>
    /\ workerPc \in {"status", "tasks", "done"}

C7_Witness ==
  /\ createRet = "reached timeout while deploying VM"
  /\ workerPc = "status"
  /\ vappExists

\* C8: Create returns nil only after the power-on task has completed: the
\* power-on was sent and did not fail, both locators designate the composed
\* vApp and its child VM, the vApp is powered on when Create returns, and a
\* GetState that comes next, with no remote event in between, reports Running.
C8_SuccessMeansRunning ==
  /\ createRet = "nil" =>
       /\ "PowerOn" \in ReqNames
       /\ failedSteps \cap {"PowerOn", "PowerOn.Wait"} = {}
       /\ d.VAppHREF = VAppRef
       /\ d.VMHREF = VMRef(1)
       /\ nChildren = 1
  /\ (last.op = "Create" /\ createRet = "nil") =>
       (alive /\ vappExists /\ vappStatus = "POWERED_ON")
  /\ (last.op = "GetState" /\ last.next) =>
       (last.val = "Running" /\ last.err = "")

C8_Witness ==
  last.op = "GetState" /\ last.next /\ last.val = "Running" /\ createRet = "nil"

\* C9: a GetState that has read the status returns Running for POWERED_ON,
\* Stopped for POWERED_OFF, Error for MIXED and for UNRESOLVED, None for any
\* other status, and no error.
C9_GetStateMapping ==
  (last.op = "GetState" /\ alive /\ vappExists /\ d.VAppHREF = VAppRef) =>
    /\ last.err = ""
    /\ vappStatus = "POWERED_ON" => last.val = "Running"
    /\ vappStatus = "POWERED_OFF" => last.val = "Stopped"
    /\ vappStatus = "MIXED" => last.val = "Error"
    /\ vappStatus = "UNRESOLVED" => last.val = "Error"
    /\ vappStatus \notin {"POWERED_ON", "POWERED_OFF", "MIXED", "UNRESOLVED"}
         => last.val = "None"

C9_Witness ==
  /\ last.op = "GetState"
  /\ vappStatus = "MIXED"
  /\ last.val = "Error"
  /\ last.err = ""

\* the adapters GetIP has scanned
Scanned ==
  IF netSection.isNil THEN <<>> ELSE netSection.NetworkConnection

\* the positions of the adapters with an external, with an internal address
WithExternal ==
  {i \in 1..Len(Scanned) : Scanned[i].ExternalIPAddress # ""}
WithInternal ==
  {i \in 1..Len(Scanned) : Scanned[i].IPAddress # ""}

\* C10: GetIP returns the external address of the first adapter that has one;
\* an internal address only if no adapter has an external one; the no-address
\* error when there is no adapter or no adapter has an address.
C10_FirstExternalAddress ==
  (last.op = "GetIP" /\ last.err \in {"", "could not get public IP"}) =>
    /\ WithExternal # {} =>
         /\ last.err = ""
         /\ last.val =
              Scanned[CHOOSE i \in WithExternal :
                        \A j \in WithExternal : i <= j].ExternalIPAddress
    /\ (WithExternal = {} /\ WithInternal # {}) =>
         /\ last.err = ""
         /\ last.val \in {Scanned[i].IPAddress : i \in WithInternal}
    /\ (WithExternal = {} /\ WithInternal = {}) =>
         last.err = "could not get public IP"

\* ---------------------------------------------------------- claims on Remove
\* the calls of the last operation, as a set
CallsMade == {last.calls[i] : i \in 1..Len(last.calls)}

\* the last operation was a Remove whose first getVApp failed
RemoveUnresolved ==
  /\ last.op = "Remove"
  /\ last.calls[1].err # ""

\* the names of the tasks the last operation submitted
TaskNames == {last.tasks[i].task : i \in 1..Len(last.tasks)}

\* the task calls the last operation made, accepted or refused
TaskCalls ==
  {c \in CallsMade : c.call \in {"vapp.PowerOn", "vapp.PowerOff",
                                  "vapp.Reboot", "vapp.Delete"}}

\* C11: a Remove run while the vApp is already gone, with delete-when-failed
\* set and the probe of the control plane answering, returns nil and submits
\* no power-off and no delete task.
C11_GoneIsSuccess ==
  [][ ( /\ last'.op = "Remove"
        /\ ~vappExists
        /\ d.DeleteWhenFailed
        /\ Call("vcdSeemsAlive", "") \in CallsMade' )
      => ( /\ last'.err = ""
           /\ TaskNames' = {}
           /\ TaskCalls' = {}
           /\ RemoveUnresolved' ) ]_vars

C11_Witness ==
  /\ RemoveUnresolved
  /\ ~vappExists
  /\ d.DeleteWhenFailed
  /\ Call("vcdSeemsAlive", "") \in CallsMade
  /\ last.err = ""
  /\ last.tasks = <<>>

\* C12: a Remove whose first getVApp failed returns the error of that lookup
\* and submits no task when delete-when-failed is off, and when the probe
\* finds the control plane dead.
C12_HardFailKeepsError ==
  ( /\ RemoveUnresolved
    /\ \/ ~d.DeleteWhenFailed
       \/ Call("vcdSeemsAlive", "dead") \in CallsMade )
  => ( /\ last.err = last.calls[1].err
       /\ last.tasks = <<>>
       /\ TaskCalls = {} )

C12_Witness ==
  /\ RemoveUnresolved
  /\ ~d.DeleteWhenFailed
  /\ alive
  /\ last.err = "error refreshing vApp"
  /\ last.tasks = <<>>

\* C13: whenever Remove returns nil the vApp no longer exists remotely.
C13_SuccessMeansGone ==
  (last.op = "Remove" /\ last.err = "") => ~vappExists

\* C14: Remove calls Delete on the vApp only when the vApp is powered off: on
\* a vApp that is not powered off, a power-off that is refused or does not
\* complete keeps Remove from calling Delete.
C14_DeleteOnlyPoweredOff ==
  ( /\ last.op = "Remove"
    /\ \E c \in CallsMade : c.call = "vapp.Delete" )
  => vappStatus = "POWERED_OFF"

\* ------------------------------------------------- claims on power operations
PowerOps == {"Start", "Stop", "Kill", "Restart"}

\* the last operation resolved the vApp: no lookup call of it failed
Resolved ==
  \A c \in CallsMade \ TaskCalls : c.err = ""

\* the positions of the task calls among the calls of the last operation
TaskCallPositions ==
  {i \in 1..Len(last.calls) : last.calls[i] \in TaskCalls}

\* the last operation, a power operation, made exactly one task call on the
\* resolved vApp, the one taskOf names for it, returned nil only with that
\* task completed, and returned an error when the call was refused or the
\* task failed
PowerContract(taskOf) ==
  last.op \in PowerOps =>
    /\ ~Resolved => (TaskCalls = {} /\ last.tasks = <<>> /\ last.err # "")
    /\ Resolved =>
         /\ Cardinality(TaskCallPositions) = 1
         /\ \A c \in TaskCalls : c.call = "vapp." \o taskOf[last.op]
         /\ Len(last.tasks) <= 1
         /\ \A i \in 1..Len(last.tasks) : last.tasks[i].task = taskOf[last.op]
         /\ last.err = "" <=>
              (Len(last.tasks) = 1 /\ last.tasks[1].completed)

\* C15: Start submits a power-on task, Stop a graceful-shutdown task, Kill a
\* power-off task and Restart a reboot task, each exactly one task on the
\* resolved vApp, returning nil only once it completed and the error when
\* the submission or the task fails.
C15_OneTaskEach ==
  PowerContract([Start |-> "PowerOn", Stop |-> "Shutdown",
                 Kill |-> "PowerOff", Restart |-> "Reboot"])

\* C15 as amended: Stop submits a power-off task, the same as Kill; the rest
\* as stated.
C15_OneTaskEach_Amended ==
  PowerContract([Start |-> "PowerOn", Stop |-> "PowerOff",
                 Kill |-> "PowerOff", Restart |-> "Reboot"])

C15_Witness ==
  /\ last.op = "Stop"
  /\ last.err = ""
  /\ last.tasks = <<Task("PowerOff", "POWERED_ON", TRUE)>>
  /\ vappStatus = "POWERED_OFF"

\* ------------------------------------------------------ claims on locators
\* the names of the calls of the last operation
CallNames == {c.call : c \in CallsMade}

\* the operations that start with getVApp, and those that start with getVM
VAppOps == PowerOps \cup {"Remove", "GetState", "GetURL"}
VMOps == {"GetIP", "GetSSHHostname"}

\* C16: an operation resolves the vApp by the stored locator whenever
\* VAppHREF is set, with no lookup by name; only with VAppHREF empty does it
\* look the vApp up by name, and a lookup that succeeds records the locator
\* in VAppHREF. The same for VMHREF, which is recorded only once the vApp was
\* resolved and has exactly one child VM.
C16_LocatorFirst ==
  [][ /\ (d.VAppHREF # "" /\ last'.op \in VAppOps \cup VMOps)
          => "GetVAppByName" \notin CallNames'
      /\ (d.VAppHREF # "" /\ last'.op \in VAppOps)
          => last'.calls[1].call \in {"newClient", "vapp.Refresh"}
      /\ (d.VAppHREF = "" /\ last'.op \in VAppOps)
          => last'.calls[1].call \in {"newClient", "GetVAppByName"}
      /\ Call("GetVAppByName", "") \in CallsMade' => d'.VAppHREF = VAppRef
      /\ (d.VMHREF # "" /\ last'.op \in VMOps)
          => CallNames' \subseteq {"newClient", "vm.Refresh"}
      /\ (d.VMHREF = "" /\ d'.VMHREF # "")
          => /\ d'.VMHREF = VMRef(1)
             /\ d'.VAppHREF = VAppRef
             /\ vappExists
             /\ nChildren = 1 ]_vars

C16_Witness ==
  /\ last.op = "GetState"
  /\ last.calls[1] = Call("GetVAppByName", "")
  /\ d.VAppHREF = VAppRef
  /\ d.VMHREF = ""

\* ------------------------------------------------------- claims on GetURL
\* C17: GetURL returns an address only when GetState reports Running, and
\* then "tcp://<ip>:<port>" with the address GetIP returns and the
\* configured Docker port; in any other state, on a failed state query, and
\* when GetIP fails, it returns an error and no URL.
C17_URLOnlyWhenRunning ==
  last.op = "GetURL" =>
    LET ip == ScanNetworks(Scanned, 1)
    IN  /\ last.err = "" =>
             /\ alive /\ vappExists /\ vappStatus = "POWERED_ON"
             /\ ip # ""
             /\ last.val = "tcp://" \o ip \o ":" \o ToString(d.DockerPort)
        /\ last.err # "" => last.val = ""
        /\ (~alive \/ ~vappExists \/ vappStatus # "POWERED_ON" \/ ip = "")
             => last.err # ""

C17_Witness ==
  /\ last.op = "GetURL"
  /\ last.err = ""
  /\ last.val = "tcp://ext1:2376"

\* ------------------------------------------------ claims on configuration
\* C18: after a SetConfigFromFlags that was not given vcd-delete-when-failed
\* the delete-when-failed policy of the driver is true.
C18_DeleteWhenFailedDefault ==
  ( /\ last.op = "SetConfigFromFlags"
    /\ createPc = "idle"
    /\ phase = "configured"
    /\ last.val = "" )
  => d.DeleteWhenFailed = TRUE

\* C19: GetState returns Error with the failure whenever resolving the vApp
\* or reading its status fails, and nothing of that failure is kept: with the
\* control plane answering and the vApp resolved, GetState returns the state
\* of the status the vApp has, also right after a GetState that failed.
C19_ErrorNotSticky ==
  last.op = "GetState" =>
    /\ last.err # "" <=> ~Resolved
    /\ last.err # "" => last.val = "Error"
    /\ (alive /\ vappExists /\ d.VAppHREF = VAppRef)
         => (last.err = "" /\ last.val = StateOf(vappStatus))

C19_Witness ==
  /\ last.op = "GetState"
  /\ last.retry
  /\ last.err = ""
  /\ last.val = "Running"

\* the fields of the driver that hold its configuration
ConfigFields == DOMAIN d \ {"VAppHREF", "VMHREF"}

\* C20: after Create no operation changes a configuration field of the
\* driver; the only fields written are VAppHREF and VMHREF, each only from
\* empty to the locator that was resolved.
C20_ConfigFrame ==
  [][ /\ \A f \in ConfigFields : d'[f] = d[f]
      /\ d'.VAppHREF # d.VAppHREF
          => (d.VAppHREF = "" /\ vappExists /\ d'.VAppHREF = VAppRef)
      /\ d'.VMHREF # d.VMHREF
          => (d.VMHREF = "" /\ vappExists /\ d'.VMHREF = VMRef(1)) ]_vars

C20_Witness ==
  /\ last.op = "GetIP"
  /\ Call("GetVAppByName", "") \in CallsMade
  /\ d.VAppHREF = VAppRef
  /\ d.VMHREF = VMRef(1)
  /\ d.DeleteWhenFailed = FALSE

\* ------------------------------------------------- claims on Create's order
\* the requests of Create that change the control plane, in the order stated
CreateOrder ==
  <<"ComposeVApp", "UpdateVmSpecSection", "UpdateNetworkConnectionSection",
    "SetGuestCustomizationSection", "PowerOn">>

\* the requests sent so far are the first ones of CreateOrder, in that order
SentInOrder ==
  /\ Len(reqs) <= Len(CreateOrder)
  /\ \A i \in 1..Len(reqs) : reqs[i].req = CreateOrder[i]

\* C21: Create sends compose, hardware-spec update, network-connection
\* update, guest-customization update and power-on in this order, each only
\* after the one before was accepted and completed (the hardware-spec update
\* also after the wait); power-on never before the guest-customization
\* update has completed.
C21_RequestsInOrder ==
  /\ SentInOrder
  /\ Len(reqs) >= 2 =>
       /\ failedSteps \cap {"ComposeVApp", "ComposeVApp.Wait", "wait"} = {}
       /\ workerPc = "done"
  /\ \A i \in 2..Len(reqs) : reqs[i - 1].req \notin failedSteps

\* --------------------------------------------- claims on the poll goroutine
\* the poll goroutine is running: it still reads vm, vapp and err
WorkerRunning == workerPc \in {"status", "tasks"}

\* C22: the poll goroutine sends at most one message on the one-slot channel,
\* so the slot is free whenever it comes to send and the send never blocks;
\* also after Create has returned on the timeout, when nobody receives, the
\* goroutine gets to its end.
C22_SendNeverBlocks ==
  /\ Len(cWait) <= 1
  /\ WorkerRunning => cWait = <<>>
  /\ cWait # <<>> => workerPc = "done"
  /\ workerPc = "none" => (cWait = <<>> /\ createPc \notin AfterSelect)

C22_Witness ==
  /\ createRet = "reached timeout while deploying VM"
  /\ workerPc = "done"
  /\ cWait = <<"ok">>
  /\ status = "POWERED_OFF"

\* C23: while the poll goroutine runs, the goroutine of Create is at the
\* select or has returned on the timeout, so it touches vm, vapp and err
\* again only after it received the message, which the poll goroutine sends
\* last; and no step of the poll goroutine writes a field of the driver.
C23_NoConcurrentAccess ==
  /\ [](WorkerRunning =>
          \/ createPc = "select"
          \/ /\ createPc = "done"
             /\ createRet = "reached timeout while deploying VM")
  /\ [](createPc \in AfterSelect => (workerPc = "done" /\ cWait = <<>>))
  /\ [][(WorkerRunning /\ workerVars' # workerVars) => driverVars' = driverVars]_vars

C23_Witness ==
  /\ createPc = "UpdateVmSpecSection"
  /\ workerPc = "done"
  /\ cWait = <<>>
  /\ d.VMHREF = VMRef(1)

\* the poll goroutine has signalled completion, or Create has gone past the
\* select
Signalled ==
  \/ "ok" \in Range(cWait)
  \/ createPc \in AfterSelect
  \/ ReqNames \cap LaterRequests # {}

\* C24: when vapp.Refresh() fails in the second loop of the poll goroutine,
\* the goroutine sends "err" and ends, and Create returns the
\* deploy-wait error instead of going on to the hardware-spec update.
C24_RefreshFailureAborts ==
  vapp.refresh = "error" =>
    /\ workerPc = "done"
    /\ ~Signalled
    /\ \/ cWait = <<"err">>
       \/ createRet \in {"error waiting for vApp deploy",
                         "reached timeout while deploying VM"}

\* C25: the poll goroutine signals completion only after it has read
\* POWERED_OFF and a refresh of the vApp then showed no pending tasks;
\* Create never sends the hardware-spec update while the vApp as last
\* refreshed lists tasks.
C25_SignalAfterTasksClear ==
  Signalled =>
    /\ status = "POWERED_OFF"
    /\ vapp.refresh = "ok"
    /\ vapp.tasksNil

\* the signal comes after POWERED_OFF was read and after a vapp.Refresh()
\* call that left vapp.VApp.Tasks nil, whether that call failed or not
SignalAfterTasksRead ==
  Signalled =>
    /\ status = "POWERED_OFF"
    /\ vapp.refresh # "none"
    /\ vapp.tasksNil

\* ------------------------------------------ claims on Remove's second lookup
\* the last operation was a Remove whose first getVApp failed, whose probe
\* answered and whose second getVApp found the vApp
RemoveSecondLookupFound ==
  /\ RemoveUnresolved
  /\ Len(last.calls) >= 3
  /\ last.calls[2] = Call("vcdSeemsAlive", "")
  /\ last.calls[3].err = ""

\* C26: a Remove on the soft-fail path whose second lookup finds the vApp
\* does not report success early: it calls PowerOff and Delete on that vApp
\* and returns nil only when the delete task has completed.
C26_FoundAgainIsDeleted ==
  RemoveSecondLookupFound =>
    /\ Len(last.calls) >= 4
    /\ last.calls[4].call = "vapp.PowerOff"
    /\ last.err # "PowerOff: task failed" =>
         (Len(last.calls) = 5 /\ last.calls[5].call = "vapp.Delete")
    /\ last.err = "" =>
         /\ Task("Delete", "POWERED_OFF", TRUE) \in Range(last.tasks)
              \/ Task("Delete", vappStatus, TRUE) \in Range(last.tasks)
         /\ ~vappExists

C26_Witness ==
  /\ RemoveSecondLookupFound
  /\ d.DeleteWhenFailed
  /\ last.err = ""
  /\ last.tasks = <<Task("PowerOff", "POWERED_ON", TRUE),
                    Task("Delete", "POWERED_OFF", TRUE)>>
  /\ ~vappExists

\* ------------------------------------------------ claims on stale locators
\* the operation of this step resolves by a stored locator: VAppHREF for the
\* operations that start with getVApp, VMHREF or VAppHREF for those that
\* start with getVM
ByStoredLocator ==
  \/ last'.op \in VAppOps /\ d.VAppHREF # ""
  \/ last'.op \in VMOps /\ (d.VMHREF # "" \/ d.VAppHREF # "")

\* the operation of this step returned the error of its first lookup call,
\* made no lookup by name and no task call, and left the driver as it was
FailedTheSameWay ==
  /\ last'.err = last'.calls[1].err
  /\ "GetVAppByName" \notin CallNames'
  /\ TaskCalls' = {}
  /\ d' = d

\* the Remove of this step took the soft-fail path: delete-when-failed is
\* set and the probe answered
SoftFailed ==
  /\ last'.op = "Remove"
  /\ d.DeleteWhenFailed
  /\ Call("vcdSeemsAlive", "") \in CallsMade'

\* C27: when a stored locator cannot be refreshed, resolving the vApp or the
\* VM returns that error, makes no lookup by name and leaves the locator as
\* it is, so every lifecycle operation fails the same way until the object
\* can be reached again.
C27_StaleLocatorFails ==
  [][ (ByStoredLocator /\ last'.calls[1].err # "") => FailedTheSameWay ]_vars

\* C27 as amended: the same, except that a Remove on the soft-fail path does
\* not return the error: it looks the vApp up again by the same locator and
\* reports success when that fails too.
C27_StaleLocatorFails_Amended ==
  [][ (ByStoredLocator /\ last'.calls[1].err # "") =>
        /\ "GetVAppByName" \notin CallNames'
        /\ d' = d
        /\ ~SoftFailed => FailedTheSameWay
        /\ (SoftFailed /\ ~vappExists) =>
             (last'.err = "" /\ TaskCalls' = {}) ]_vars

C27_Witness ==
  /\ last.op = "Kill"
  /\ last.err = "error refreshing vApp"
  /\ last.calls = <<Call("vapp.Refresh", "error refreshing vApp")>>
  /\ alive
  /\ ~vappExists
  /\ d.VAppHREF = VAppRef
====
